---------------------------- MODULE Spec2Model ----------------------------
(***************************************************************************)
(* telegram-bot-sox (src/main.go): a Telegram bot that keeps one session   *)
(* (selected sox preset) per allowed user and converts voice messages with *)
(* the external sox binary.                                                *)
(*                                                                         *)
(* Every update the polling loop delivers is handled by its own goroutine  *)
(* (the callback given to StartMonitoringUpdates), so handlers interleave. *)
(* processUpdate holds pool.Lock() from reading the session to the end of  *)
(* the reply; processCallbackQuery never takes the lock.                   *)
(*                                                                         *)
(* Go strings are TLA+ strings (sequences of characters): prefix tests,    *)
(* trimming and formatting are computed on the characters.                 *)
(***************************************************************************)
EXTENDS Naturals, Sequences, FiniteSets, TLC

(* Number of updates the polling loop delivers in one run of the model. *)
MaxUpdates == 2

Updates == 1..MaxUpdates

(***************************************************************************)
(* Constants of src/main.go, lines 20-41 and 60.                           *)
(***************************************************************************)
commandStart == "/start"
commandPreset == "/preset"
commandChangePreset == "/presetchange"
commandHelp == "/help"
commandCancel == "/cancel"

messageDefault == "Record your voice to start."
messageSelectPreset == "Select a preset."
messageNoPreset == "No preset available."
messageNoMatchingPreset == "No such preset"
messagePresetChanged == "Applied preset"
messagePresetNotSet == "Preset not set"
messageUnknownCommand == "Unknown command"
messageCancel == "Cancel"
messageCanceled == "Canceled."

soxDefaultPreset == <<"speed", "1.0">>

(* The fixed argument prefix of soxConvert: stdin is opus, stdout is ogg. *)
soxDefaultArgs == <<"-t", "opus", "-", "-t", "ogg", "-">>

getHelp ==
  "\nFollowing commands are supported:\n\n/preset: change preset\n/help : show this help message\n"

(* allKeyboards: the static reply keyboard with the two command buttons. *)
allKeyboards == <<commandPreset, commandHelp>>

(***************************************************************************)
(* Go's strings package, on TLA+ strings.                                  *)
(***************************************************************************)
HasPrefix(s, prefix) ==
  /\ Len(s) >= Len(prefix)
  /\ SubSeq(s, 1, Len(prefix)) = prefix

TrimPrefix(s, prefix) ==
  IF HasPrefix(s, prefix) THEN SubSeq(s, Len(prefix) + 1, Len(s)) ELSE s

IsSpace(c) == c \in {" ", "\t", "\n", "\r"}

RECURSIVE TrimLeft(_)
TrimLeft(s) ==
  IF Len(s) > 0 /\ IsSpace(SubSeq(s, 1, 1))
  THEN TrimLeft(SubSeq(s, 2, Len(s)))
  ELSE s

RECURSIVE TrimRight(_)
TrimRight(s) ==
  IF Len(s) > 0 /\ IsSpace(SubSeq(s, Len(s), Len(s)))
  THEN TrimRight(SubSeq(s, 1, Len(s) - 1))
  ELSE s

TrimSpace(s) == TrimRight(TrimLeft(s))

(* strings.Join(elems, sep) *)
RECURSIVE Join(_, _)
Join(elems, sep) ==
  IF Len(elems) = 0 THEN ""
  ELSE IF Len(elems) = 1 THEN elems[1]
  ELSE elems[1] \o sep \o Join(Tail(elems), sep)

(* strings.Contains(s, substr) *)
Contains(s, substr) ==
  \E i \in 1..(Len(s) + 1) :
    /\ i + Len(substr) - 1 <= Len(s)
    /\ SubSeq(s, i, i + Len(substr) - 1) = substr

(***************************************************************************)
(* Configuration (config.json, read once by init).                         *)
(***************************************************************************)
availableIds == <<"alice", "bob">>

(* The sox_presets tables the model is run with: none, one, two, a name    *)
(* equal to the cancel button's label, the empty name alone and next to    *)
(* another name, and a name that differs from another only by a leading    *)
(* blank.                                                                  *)
PresetConfigs ==
  { <<>>,
    [n \in {"fast"} |-> <<"speed", "1.6">>],
    [n \in {"fast", "Cancel"} |->
       IF n = "fast" THEN <<"speed", "1.6">> ELSE <<"reverse">>],
    [n \in {""} |-> <<"pitch", "200">>],
    [n \in {"", "fast"} |->
       IF n = "" THEN <<"pitch", "200">> ELSE <<"speed", "1.6">>],
    [n \in {"slow", " slow"} |->
       IF n = "slow" THEN <<"speed", "0.6", "pitch", "-200">>
       ELSE <<"speed", "0.5">>] }

VARIABLES
  soxPresets,   \* the configured preset table (name -> argument list)
  sessions,     \* pool.Sessions: user id -> session
  mutex,        \* pool.Mutex: 0 when free, else the update whose handler holds it
  pc,           \* where each update's handler goroutine is
  update,       \* the update each handler was given
  session,      \* processUpdate's local copy of the user's session
  args,         \* the argument list soxConvert passed to exec.Command
  calls,        \* the outbound Bot API calls each handler has made, in order
  result,       \* the handler's return value
  crashed,      \* the process died (nil dereference, concurrent map access)
  lastChange,   \* history: data of the last change-preset callback handled per user
  seen,         \* history: lastChange of the sender when the session was read
  fetched,      \* what the fetch of the voice file answered
  ran,          \* how the sox process ended
  invocations   \* how many times the sox process was started for each update

vars == <<soxPresets, sessions, mutex, pc, update, session, args, calls,
          result, crashed, lastChange, seen, fetched, ran, invocations>>


(***************************************************************************)
(* The updates the polling loop can deliver.                               *)
(***************************************************************************)
Senders ==
  { [hasUsername |-> TRUE, Username |-> "alice"],
    [hasUsername |-> TRUE, Username |-> "bob"],
    [hasUsername |-> TRUE, Username |-> "mallory"],
    [hasUsername |-> FALSE, Username |-> ""] }

(* the commands, a text that only starts with one, one in another case,    *)
(* and one that is no command                                              *)
Texts == {commandStart, commandPreset, commandHelp, "/helpme", "/Help", "hello"}

(* fmt.Sprintf("%s %s", commandChangePreset, k): a preset button's data *)
ChangeData(k) == commandChangePreset \o " " \o k

CallbackData ==
  {ChangeData(k) : k \in DOMAIN soxPresets}
    \cup {ChangeData("nope"), commandCancel, "junk"}

MessageUpdates ==
  { [kind |-> "message", from |-> f, hasText |-> TRUE, text |-> t,
     hasVoice |-> FALSE, data |-> ""] : f \in Senders, t \in Texts }
  \cup
  { [kind |-> "message", from |-> f, hasText |-> FALSE, text |-> "",
     hasVoice |-> v, data |-> ""] : f \in Senders, v \in BOOLEAN }
  \cup
  { [kind |-> "message", from |-> f, hasText |-> TRUE, text |-> commandStart,
     hasVoice |-> TRUE, data |-> ""] : f \in Senders }

CallbackUpdates ==
  { [kind |-> "callback", from |-> f, hasText |-> FALSE, text |-> "",
     hasVoice |-> FALSE, data |-> d] : f \in Senders, d \in CallbackData }

NoUpdate ==
  [kind |-> "none", from |-> [hasUsername |-> FALSE, Username |-> ""],
   hasText |-> FALSE, text |-> "", hasVoice |-> FALSE, data |-> ""]

(* The zero value of the session struct. *)
ZeroSession == [UserId |-> "", SelectedPreset |-> ""]

(***************************************************************************)
(* What the outside world answers: the file fetch, the sox process.        *)
(***************************************************************************)
FetchOutcomes ==
  { [ok |-> TRUE, error |-> ""],
    [ok |-> FALSE, error |-> "Failed to get file: file is too big"],
    [ok |-> FALSE, error |-> "Get: connection refused"] }

(* exit status with what the process wrote to stdout and stderr; the last  *)
(* one is a process that could not be spawned.                             *)
SoxOutcomes ==
  { [ok |-> TRUE, stdout |-> "OggS", stderr |-> ""],
    [ok |-> FALSE, stdout |-> "", stderr |-> "bad format"],
    [ok |-> FALSE, stdout |-> "warn", stderr |-> "bad format"],
    [ok |-> FALSE, stdout |-> "", stderr |-> ""] }

NoOutcome == [ok |-> FALSE, pending |-> TRUE]

(***************************************************************************)
(* Outbound Bot API calls, as the handler passes them.                     *)
(***************************************************************************)
Call(api, text, keyboard, buttons, caption, ok) ==
  [api |-> api, text |-> text, keyboard |-> keyboard, buttons |-> buttons,
   caption |-> caption, ok |-> ok]

(* keys[k] = v on a Go map kept as a set of (text, data) entries *)
MapPut(m, k, v) == {e \in m : e.text # k} \cup {[text |-> k, data |-> v]}

(***************************************************************************)
(* init (lines 99-125): one zero session per allowed id.                   *)
(***************************************************************************)
InitSessions ==
  [v \in {availableIds[i] : i \in 1..Len(availableIds)} |->
     [UserId |-> v, SelectedPreset |-> ""]]

Init ==
  /\ soxPresets \in PresetConfigs
  /\ sessions = InitSessions
  /\ mutex = 0
  /\ pc = [i \in Updates |-> "idle"]
  /\ update = [i \in Updates |-> NoUpdate]
  /\ session = [i \in Updates |-> ZeroSession]
  /\ args = [i \in Updates |-> <<>>]
  /\ calls = [i \in Updates |-> <<>>]
  /\ result = [i \in Updates |-> FALSE]
  /\ crashed = FALSE
  /\ lastChange = [v \in DOMAIN InitSessions |-> ""]
  /\ seen = [i \in Updates |-> ""]
  /\ fetched = [i \in Updates |-> NoOutcome]
  /\ ran = [i \in Updates |-> NoOutcome]
  /\ invocations = [i \in Updates |-> 0]

(* isAvailableId with the comparison left out: every id is accepted *)
isAvailableId_any(id) == TRUE

(* isAvailableId (lines 128-135) *)
isAvailableId(id) == \E i \in 1..Len(availableIds) : availableIds[i] = id

(***************************************************************************)
(* main's callback (lines 372-382): the polling loop hands update u to a   *)
(* new handler goroutine; updates are handed over in order.                *)
(***************************************************************************)
Deliver(i, u) ==
  /\ ~crashed
  /\ pc[i] = "idle"
  /\ \A j \in Updates : j < i => pc[j] # "idle"
  /\ pc' = [pc EXCEPT ![i] = "start"]
  /\ update' = [update EXCEPT ![i] = u]
  /\ UNCHANGED <<soxPresets, sessions, mutex, session, args, calls, result,
                 crashed, lastChange, seen, fetched, ran, invocations>>

(***************************************************************************)
(* processUpdate, lines 149-159: the username check.                       *)
(***************************************************************************)
CheckUser(i) ==
  /\ ~crashed
  /\ pc[i] = "start"
  /\ update[i].kind = "message"
  /\ IF update[i].from.hasUsername /\ isAvailableId(update[i].from.Username)
     THEN pc' = [pc EXCEPT ![i] = "lock"]
     ELSE pc' = [pc EXCEPT ![i] = "done"]
  /\ UNCHANGED <<soxPresets, sessions, mutex, update, session, args, calls,
                 result, crashed, lastChange, seen, fetched, ran, invocations>>

(***************************************************************************)
(* processUpdate, lines 164-165 and 247-249: pool.Lock() and the read of   *)
(* the sender's session into the local variable.                           *)
(***************************************************************************)
(* pool.Lock() that does not wait for the holder *)
lockAvailable_noWait == TRUE

(* sync.Mutex: Lock() returns only when no handler holds the mutex *)
lockAvailable == mutex = 0

Lock(i) ==
  LET userId == update[i].from.Username IN
  /\ ~crashed
  /\ pc[i] = "lock"
  /\ lockAvailable
  /\ mutex' = i
  /\ IF userId \in DOMAIN sessions
     THEN /\ session' = [session EXCEPT ![i] = sessions[userId]]
          /\ pc' = [pc EXCEPT ![i] = "locked"]
     ELSE /\ session' = session
          /\ pc' = [pc EXCEPT ![i] = "unlock"]
  /\ seen' = [seen EXCEPT ![i] =
                IF userId \in DOMAIN lastChange THEN lastChange[userId] ELSE ""]
  /\ UNCHANGED <<soxPresets, sessions, update, args, calls, result, crashed,
                 lastChange, fetched, ran, invocations>>

(***************************************************************************)
(* processUpdate, lines 212-238: the reply to a text message.  The preset  *)
(* command builds the inline keyboard from a map: one entry per preset     *)
(* name, then the entry of the cancel button.                              *)
(***************************************************************************)
presetKeys ==
  MapPut({[text |-> k, data |-> ChangeData(k)] : k \in DOMAIN soxPresets},
         messageCancel, commandCancel)

(* textReply comparing the whole text with each command *)
textReply_exact(txt, ok) ==
  IF txt = commandStart
  THEN Call("SendMessage", messageDefault, "reply", {}, "", ok)
  ELSE IF txt = commandPreset
  THEN IF Cardinality(DOMAIN soxPresets) > 0
       THEN Call("SendMessage", messageSelectPreset, "inline", presetKeys, "", ok)
       ELSE Call("SendMessage", messageNoPreset, "reply", {}, "", ok)
  ELSE IF txt = commandHelp
  THEN Call("SendMessage", getHelp, "reply", {}, "", ok)
  ELSE Call("SendMessage", messageUnknownCommand \o ": " \o txt, "reply", {}, "", ok)

(* lines 212-238: the switch on the prefix of the text *)
textReply(txt, ok) ==
  IF HasPrefix(txt, commandStart)
  THEN Call("SendMessage", messageDefault, "reply", {}, "", ok)
  ELSE IF HasPrefix(txt, commandPreset)
  THEN IF Cardinality(DOMAIN soxPresets) > 0
       THEN Call("SendMessage", messageSelectPreset, "inline", presetKeys, "", ok)
       ELSE Call("SendMessage", messageNoPreset, "reply", {}, "", ok)
  ELSE IF HasPrefix(txt, commandHelp)
  THEN Call("SendMessage", getHelp, "reply", {}, "", ok)
  ELSE Call("SendMessage", messageUnknownCommand \o ": " \o txt, "reply", {}, "", ok)

(* the handler reporting success whatever the send answered *)
sendResult_ignored(ok) == TRUE

(* lines 200-204 and 241-245: the handler's result after the final send *)
sendResult(ok) == ok

(* processUpdate, lines 166-172 and 211-246: a message without voice *)
ReplyText(i, ok) ==
  LET txt == IF update[i].hasText THEN update[i].text ELSE "" IN
  /\ ~crashed
  /\ pc[i] = "locked"
  /\ ~update[i].hasVoice
  /\ calls' = [calls EXCEPT ![i] = Append(@, textReply(txt, ok))]
  /\ result' = [result EXCEPT ![i] = sendResult(ok)]
  /\ pc' = [pc EXCEPT ![i] = "unlock"]
  /\ UNCHANGED <<soxPresets, sessions, mutex, update, session, args, crashed,
                 lastChange, seen, fetched, ran, invocations>>

(***************************************************************************)
(* soxConvert, lines 337-348: the argument list given to exec.Command.     *)
(***************************************************************************)
soxConvertArgs(preset) ==
  IF preset \in DOMAIN soxPresets
  THEN soxDefaultArgs \o soxPresets[preset]
  ELSE soxDefaultArgs \o soxDefaultPreset

(* soxConvertError with stderr left out of the message *)
soxConvertError_stdoutOnly(o) == o.stdout

(* soxConvert, line 357: the error of a failed run *)
soxConvertError(o) == o.stdout \o " " \o o.stderr

(* processUpdate, lines 206-209: the reply to a failed synthesis; whether   *)
(* it was sent (ok) is not looked at                                       *)
failureReply(err, ok) ==
  Call("SendMessage", "Failed to synthesize voice: " \o err, "reply", {}, "", ok)

(* the caption built from the session as the store holds it at that time *)
voiceCaption_fromPool(s) ==
  LET now == IF s.UserId \in DOMAIN sessions
             THEN sessions[s.UserId].SelectedPreset ELSE s.SelectedPreset
  IN  IF Len(now) > 0
      THEN now \o " ("
             \o Join(IF now \in DOMAIN soxPresets THEN soxPresets[now] ELSE <<>>, " ")
             \o ")"
      ELSE messagePresetNotSet

(* processUpdate, lines 192-197: the caption of the voice reply *)
voiceCaption(s) ==
  IF Len(s.SelectedPreset) > 0
  THEN s.SelectedPreset \o " ("
         \o Join(IF s.SelectedPreset \in DOMAIN soxPresets
                 THEN soxPresets[s.SelectedPreset] ELSE <<>>, " ")
         \o ")"
  ELSE messagePresetNotSet

(* soxConvert called whether or not the voice file was fetched *)
invokesSox_always(f) == TRUE

(* lines 311-327: soxConvert (cmd.Run, line 354) is called (line 324)      *)
(* after a fetch that succeeded, not after one that failed (early returns  *)
(* of lines 316 and 321)                                                   *)
invokesSox(f) == f.ok

(***************************************************************************)
(* processUpdate, lines 183-188 with synthesizeVoiceWithFileId (311-327):  *)
(* the chat action, the fetch of the voice file, and the start of the sox  *)
(* process with its argument list.  A failed fetch is answered at once.    *)
(***************************************************************************)
Synthesize(i, f, ok) ==
  /\ ~crashed
  /\ pc[i] = "locked"
  /\ update[i].hasVoice
  /\ fetched' = [fetched EXCEPT ![i] = f]
  /\ invocations' = [invocations EXCEPT ![i] = IF invokesSox(f) THEN @ + 1 ELSE @]
  /\ IF f.ok
     THEN /\ args' = [args EXCEPT ![i] = soxConvertArgs(session[i].SelectedPreset)]
          /\ calls' = [calls EXCEPT ![i] =
                         Append(@, Call("SendChatAction", "record_audio", "none", {}, "", TRUE))]
          /\ pc' = [pc EXCEPT ![i] = "convert"]
     ELSE /\ args' = args
          /\ calls' = [calls EXCEPT ![i] =
                         @ \o <<Call("SendChatAction", "record_audio", "none", {}, "", TRUE),
                                failureReply(f.error, ok)>>]
          /\ pc' = [pc EXCEPT ![i] = "unlock"]
  /\ UNCHANGED <<soxPresets, sessions, mutex, update, session, result, crashed,
                 lastChange, seen, ran>>

(***************************************************************************)
(* soxConvert, lines 350-358, and processUpdate, lines 188-210: cmd.Run    *)
(* returns with outcome o; the voice (or the failure text) is sent.        *)
(***************************************************************************)
ConvertReturn(i, o, ok) ==
  /\ ~crashed
  /\ pc[i] = "convert"
  /\ ran' = [ran EXCEPT ![i] = o]
  /\ IF o.ok
     THEN /\ calls' = [calls EXCEPT ![i] =
                         @ \o <<Call("SendChatAction", "upload_audio", "none", {}, "", TRUE),
                                Call("SendVoice", o.stdout, "reply", {},
                                     voiceCaption(session[i]), ok)>>]
          /\ result' = [result EXCEPT ![i] = sendResult(ok)]
     ELSE /\ calls' = [calls EXCEPT ![i] = Append(@, failureReply(soxConvertError(o), ok))]
          /\ result' = result
  /\ pc' = [pc EXCEPT ![i] = "unlock"]
  /\ UNCHANGED <<soxPresets, sessions, mutex, update, session, args, crashed,
                 lastChange, seen, fetched, invocations>>

(* processUpdate, lines 250-252: pool.Unlock() and return *)
Unlock(i) ==
  /\ ~crashed
  /\ pc[i] = "unlock"
  /\ mutex' = 0
  /\ pc' = [pc EXCEPT ![i] = "done"]
  /\ UNCHANGED <<soxPresets, sessions, update, session, args, calls, result,
                 crashed, lastChange, seen, fetched, ran, invocations>>

(***************************************************************************)
(* processCallbackQuery, lines 257-287.                                    *)
(***************************************************************************)
(* line 265: the preset name a change-preset payload carries *)
presetOf(txt) == TrimSpace(TrimPrefix(txt, commandChangePreset))

(* line 268: *query.From.Username with no username set *)
DerefsNilUsername(u) ==
  /\ HasPrefix(u.data, commandChangePreset)
  /\ presetOf(u.data) \in DOMAIN soxPresets
  /\ ~u.from.hasUsername

(* ChangesPreset with the lookup of the name in soxPresets left out *)
ChangesPreset_anyName(u) ==
  /\ HasPrefix(u.data, commandChangePreset)
  /\ u.from.hasUsername
  /\ isAvailableId(u.from.Username)

(* lines 264-276: the cases in which pool.Sessions[userId] is assigned *)
ChangesPreset(u) ==
  /\ HasPrefix(u.data, commandChangePreset)
  /\ presetOf(u.data) \in DOMAIN soxPresets
  /\ u.from.hasUsername
  /\ isAvailableId(u.from.Username)

(* callbackMessage with the sender checked before the preset is looked up *)
callbackMessage_authFirst(u) ==
  IF HasPrefix(u.data, commandChangePreset)
  THEN IF ~isAvailableId(u.from.Username)
       THEN ""
       ELSE IF presetOf(u.data) \in DOMAIN soxPresets
            THEN messagePresetChanged \o ": " \o presetOf(u.data)
            ELSE messageNoMatchingPreset \o ": " \o presetOf(u.data)
  ELSE IF HasPrefix(u.data, commandCancel)
  THEN messageCanceled
  ELSE ""

(* lines 263-287: the acknowledgement text, empty when there is none *)
callbackMessage(u) ==
  IF HasPrefix(u.data, commandChangePreset)
  THEN IF presetOf(u.data) \in DOMAIN soxPresets
       THEN IF isAvailableId(u.from.Username)
            THEN messagePresetChanged \o ": " \o presetOf(u.data)
            ELSE ""
       ELSE messageNoMatchingPreset \o ": " \o presetOf(u.data)
  ELSE IF HasPrefix(u.data, commandCancel)
  THEN messageCanceled
  ELSE ""

(* the assignment of lines 273-276 with the two fields exchanged *)
SetSession_swapped(userId, preset) ==
  [k \in DOMAIN sessions \cup {userId} |->
     IF k = userId THEN [UserId |-> preset, SelectedPreset |-> userId]
     ELSE sessions[k]]

(* the assignment of lines 273-276 replacing the whole map *)
SetSession_replaceAll(userId, preset) ==
  [k \in {userId} |-> [UserId |-> userId, SelectedPreset |-> preset]]

(* lines 273-276: pool.Sessions[userId] = session{...} (adds a missing key) *)
SetSession(userId, preset) ==
  [k \in DOMAIN sessions \cup {userId} |->
     IF k = userId THEN [UserId |-> userId, SelectedPreset |-> preset]
     ELSE sessions[k]]

ProcessCallback(i) ==
  LET u == update[i] IN
  /\ ~crashed
  /\ pc[i] = "start"
  /\ u.kind = "callback"
  /\ IF DerefsNilUsername(u)
     THEN /\ crashed' = TRUE
          /\ pc' = [pc EXCEPT ![i] = "panic"]
          /\ UNCHANGED <<sessions, lastChange>>
     ELSE /\ crashed' = crashed
          /\ sessions' = IF ChangesPreset(u)
                         THEN SetSession(u.from.Username, presetOf(u.data))
                         ELSE sessions
          /\ lastChange' =
               IF HasPrefix(u.data, commandChangePreset)
                  /\ u.from.Username \in DOMAIN lastChange
               THEN [lastChange EXCEPT ![u.from.Username] = u.data]
               ELSE lastChange
          /\ pc' = [pc EXCEPT ![i] =
                      IF Len(callbackMessage(u)) > 0 THEN "answer" ELSE "done"]
  /\ UNCHANGED <<soxPresets, mutex, update, session, args, calls, result, seen,
                 fetched, ran, invocations>>

(* the edit made whether or not the acknowledgement was delivered *)
editsAfter_always(ackOk) == TRUE

(* lines 291-297: EditMessageText is called only when the answer was ok *)
editsAfter(ackOk) == ackOk

(***************************************************************************)
(* processCallbackQuery, lines 289-307: the acknowledgement and, when it   *)
(* succeeded, the edit of the original message.                            *)
(***************************************************************************)
AnswerCallback(i, ackOk, editOk) ==
  LET message == callbackMessage(update[i]) IN
  /\ ~crashed
  /\ pc[i] = "answer"
  /\ calls' = [calls EXCEPT ![i] =
       IF editsAfter(ackOk)
       THEN @ \o <<Call("AnswerCallbackQuery", message, "none", {}, "", ackOk),
                   Call("EditMessageText", message, "none", {}, "", editOk)>>
       ELSE Append(@, Call("AnswerCallbackQuery", message, "none", {}, "", ackOk))]
  /\ result' = [result EXCEPT ![i] = ackOk /\ editOk]
  /\ pc' = [pc EXCEPT ![i] = "done"]
  /\ UNCHANGED <<soxPresets, sessions, mutex, update, session, args, crashed,
                 lastChange, seen, fetched, ran, invocations>>

(***************************************************************************)
(* The map pool.Sessions is written at line 273 without the lock.  When    *)
(* that write runs at the same time as another write or as the read of     *)
(* line 165, the Go runtime may stop the process ("concurrent map writes", *)
(* "concurrent map read and map write"); otherwise the two accesses take   *)
(* effect in either order.                                                 *)
(***************************************************************************)
WritesSessions(i) ==
  pc[i] = "start" /\ update[i].kind = "callback" /\ ChangesPreset(update[i])

ReadsSessions(i) == pc[i] = "lock" /\ mutex = 0

MapRaceFatal ==
  /\ ~crashed
  /\ \E i, j \in Updates :
       i # j /\ WritesSessions(i) /\ (WritesSessions(j) \/ ReadsSessions(j))
  /\ crashed' = TRUE
  /\ UNCHANGED <<soxPresets, sessions, mutex, pc, update, session, args, calls,
                 result, lastChange, seen, fetched, ran, invocations>>

Next ==
  \/ \E i \in Updates : \E u \in MessageUpdates \cup CallbackUpdates : Deliver(i, u)
  \/ \E i \in Updates : CheckUser(i)
  \/ \E i \in Updates : Lock(i)
  \/ \E i \in Updates : \E ok \in BOOLEAN : ReplyText(i, ok)
  \/ \E i \in Updates : \E f \in FetchOutcomes : \E ok \in BOOLEAN : Synthesize(i, f, ok)
  \/ \E i \in Updates : \E o \in SoxOutcomes : \E ok \in BOOLEAN : ConvertReturn(i, o, ok)
  \/ \E i \in Updates : Unlock(i)
  \/ \E i \in Updates : ProcessCallback(i)
  \/ \E i \in Updates : \E ackOk, editOk \in BOOLEAN : AnswerCallback(i, ackOk, editOk)
  \/ MapRaceFatal

Spec == Init /\ [][Next]_vars

(***************************************************************************)
(* Vocabulary of the properties.                                           *)
(***************************************************************************)
AllowList == {availableIds[k] : k \in 1..Len(availableIds)}

IsMessage(i) == update[i].kind = "message"
IsCallback(i) == update[i].kind = "callback"
IsVoice(i) == IsMessage(i) /\ update[i].hasVoice

Authorized(i) ==
  update[i].from.hasUsername /\ update[i].from.Username \in AllowList

(* the sender has a username and it is not on the allow-list *)
NotAllowed(i) ==
  update[i].from.hasUsername /\ update[i].from.Username \notin AllowList

IsChangePreset(i) == IsCallback(i) /\ HasPrefix(update[i].data, "/presetchange")

CallsOf(i, api) == {k \in 1..Len(calls[i]) : calls[i][k].api = api}

(***************************************************************************)
(* C1: an update (message or callback, any payload) whose sender is not in *)
(* the allow-list causes no outbound call at all.                          *)
(* Fails: processCallbackQuery checks the sender only on the branch of a   *)
(* configured preset; "/cancel" and an unknown preset are acknowledged     *)
(* and the message edited for any sender.                                  *)
(***************************************************************************)
C1_UnauthorizedNoOutbound ==
  \A i \in Updates :
    (IsMessage(i) \/ IsCallback(i)) /\ NotAllowed(i) => calls[i] = <<>>

(***************************************************************************)
(* C2: in every reachable state the keys of the session store are exactly  *)
(* the allow-list.                                                         *)
(***************************************************************************)
C2_SessionKeysAreAllowList == DOMAIN sessions = AllowList

(* a sender outside the allow-list has asked for a configured preset, and  *)
(* an allowed user's preset has been changed                               *)
C2_Witness ==
  /\ \E i \in Updates :
       /\ pc[i] = "done" /\ IsChangePreset(i) /\ NotAllowed(i)
       /\ presetOf(update[i].data) \in DOMAIN soxPresets
  /\ \E v \in DOMAIN sessions : sessions[v].SelectedPreset # ""

(* sox has been started for the voice message of update i *)
Converted(i) == IsVoice(i) /\ args[i] # <<>>

(* the voice reply of update i, when one was sent *)
VoiceReplies(i) == {calls[i][k] : k \in CallsOf(i, "SendVoice")}

(***************************************************************************)
(* C3: for every configured preset P and authorized user u, when u's last  *)
(* change-preset callback before a voice message is the one of P's button  *)
(* ("/presetchange P"), sox is started with the fixed prefix followed by   *)
(* exactly P's argument list.                                              *)
(* Fails: line 265 trims blanks from the name, so the button of a preset   *)
(* whose name starts or ends with a blank selects another preset or none.  *)
(***************************************************************************)
C3_SelectedPresetConverted ==
  \A i \in Updates : \A P \in DOMAIN soxPresets :
    Converted(i) /\ Authorized(i) /\ seen[i] = "/presetchange " \o P
      => args[i] = <<"-t", "opus", "-", "-t", "ogg", "-">> \o soxPresets[P]

(***************************************************************************)
(* C4: a voice message of an authorized user who never selected a preset,  *)
(* whose fetch and conversion succeed, is converted with the fallback      *)
(* arguments (speed 1.0) after the fixed prefix, and the voice reply's     *)
(* caption is "Preset not set".                                            *)
(* Fails: with a preset configured under the empty name, soxConvert finds  *)
(* the unset (empty) selection in the table and applies that preset, while *)
(* the caption still reads "Preset not set".                               *)
(***************************************************************************)
C4_NoSelectionUsesFallback ==
  \A i \in Updates :
    IsVoice(i) /\ Authorized(i) /\ seen[i] = "" /\ VoiceReplies(i) # {}
      => /\ args[i] = <<"-t", "opus", "-", "-t", "ogg", "-", "speed", "1.0">>
         /\ \A c \in VoiceReplies(i) : c.caption = "Preset not set"

(***************************************************************************)
(* C5: the argument list for preset name n is the fixed prefix followed by *)
(* n's configured list when n is configured, by (speed, 1.0) when n is not *)
(* configured, and the empty name always takes (speed, 1.0).               *)
(* Fails for a configuration that has a preset under the empty name.       *)
(***************************************************************************)
C5_ArgsByPresetName ==
  \A i \in Updates :
    Converted(i) =>
      LET n == session[i].SelectedPreset
          prefix == <<"-t", "opus", "-", "-t", "ogg", "-">>
      IN  /\ n \in DOMAIN soxPresets /\ n # "" => args[i] = prefix \o soxPresets[n]
          /\ n \notin DOMAIN soxPresets => args[i] = prefix \o <<"speed", "1.0">>
          /\ n = "" => args[i] = prefix \o <<"speed", "1.0">>

NamesUnknownPreset(i) ==
  IsChangePreset(i) /\ presetOf(update[i].data) \notin DOMAIN soxPresets

(***************************************************************************)
(* C6: a change-preset callback whose preset name is not configured is     *)
(* acknowledged with "No such preset: <name>", whoever the sender is, and  *)
(* handling it changes no user's session.                                  *)
(***************************************************************************)
(* C6, first part: the acknowledgement *)
C6_UnknownPresetAcknowledged ==
  \A i \in Updates :
    NamesUnknownPreset(i) /\ pc[i] = "done"
      => /\ Len(calls[i]) >= 1
         /\ calls[i][1].api = "AnswerCallbackQuery"
         /\ calls[i][1].text = "No such preset: " \o presetOf(update[i].data)
         /\ Cardinality(CallsOf(i, "AnswerCallbackQuery")) = 1

(* C6, second part: the step that handles the callback keeps the store *)
C6_UnknownPresetKeepsSessions ==
  \A i \in Updates :
    NamesUnknownPreset(i) /\ pc[i] = "start" /\ pc'[i] # "start"
      => sessions' = sessions

(* C6, both parts: the acknowledgement of every finished such callback    *)
(* and the unchanged session store across its handling step                *)
C6_UnknownPreset ==
  [](C6_UnknownPresetAcknowledged) /\ [][C6_UnknownPresetKeepsSessions]_vars

(* senders inside and outside the allow-list have both been answered       *)
(* "No such preset: nope"                                                  *)
C6_Witness ==
  \E i, j \in Updates :
    /\ NamesUnknownPreset(i) /\ pc[i] = "done" /\ ~Authorized(i)
    /\ NamesUnknownPreset(j) /\ pc[j] = "done" /\ Authorized(j)
    /\ calls[i][1].text = "No such preset: nope"
    /\ calls[j][1].text = "No such preset: nope"

IsPresetCommand(i) ==
  /\ IsMessage(i) /\ ~update[i].hasVoice /\ update[i].hasText
  /\ HasPrefix(update[i].text, "/preset")
  /\ ~HasPrefix(update[i].text, "/start")

(***************************************************************************)
(* C7: the reply to the preset command of an authorized user: with no      *)
(* preset configured its text is "No preset available." and it carries no  *)
(* inline keyboard; with N >= 1 presets its inline keyboard has exactly    *)
(* N+1 buttons, one per preset name and one cancel button.                 *)
(* Fails: the buttons are collected in a map keyed by label (lines         *)
(* 220-224), so a preset named "Cancel" is overwritten by the cancel       *)
(* button and the keyboard has N buttons.                                  *)
(***************************************************************************)
C7_PresetKeyboard ==
  \A i \in Updates :
    IsPresetCommand(i) /\ Authorized(i) /\ pc[i] = "done"
      => LET N == Cardinality(DOMAIN soxPresets)
             c == calls[i][1]
         IN  /\ Len(calls[i]) = 1
             /\ c.api = "SendMessage"
             /\ IF N = 0
                THEN c.text = "No preset available." /\ c.keyboard # "inline"
                ELSE /\ c.keyboard = "inline"
                     /\ Cardinality(c.buttons) = N + 1
                     /\ \A k \in DOMAIN soxPresets :
                          \E b \in c.buttons : b.data = "/presetchange " \o k
                     /\ \E b \in c.buttons : b.data = "/cancel"

FetchFailed(i) == ~fetched[i].ok /\ fetched[i] # NoOutcome
SoxFailed(i) == ~ran[i].ok /\ ran[i] # NoOutcome
SynthesisFailed(i) == IsVoice(i) /\ (FetchFailed(i) \/ SoxFailed(i))

(***************************************************************************)
(* C8: when the synthesis of an authorized user's voice message fails      *)
(* (fetch failure, sox not started or non-zero exit), exactly one text     *)
(* reply is sent, it contains the failure description (the fetch error, or *)
(* what sox wrote to stdout and stderr), no voice reply is sent, and the   *)
(* handler then releases the session lock: a finished handler never holds  *)
(* it, so it is free for the next update.                                  *)
(***************************************************************************)
C8_FailureReplied ==
  \A i \in Updates :
    /\ SynthesisFailed(i) /\ pc[i] \in {"unlock", "done"}
         => /\ Cardinality(CallsOf(i, "SendMessage")) = 1
            /\ CallsOf(i, "SendVoice") = {}
            /\ \A k \in CallsOf(i, "SendMessage") :
                 /\ HasPrefix(calls[i][k].text, "Failed to synthesize voice: ")
                 /\ FetchFailed(i) => Contains(calls[i][k].text, fetched[i].error)
                 /\ SoxFailed(i) => /\ Contains(calls[i][k].text, ran[i].stderr)
                                    /\ Contains(calls[i][k].text, ran[i].stdout)
    /\ pc[i] = "done" => mutex # i

(* a conversion failed with "bad format" on stderr, its handler has        *)
(* finished, and a later update of another user has been answered          *)
C8_Witness ==
  \E i, j \in Updates :
    /\ i # j
    /\ SoxFailed(i) /\ ran[i].stderr = "bad format" /\ pc[i] = "done"
    /\ \E k \in CallsOf(i, "SendMessage") : Contains(calls[i][k].text, "bad format")
    /\ IsMessage(j) /\ Authorized(j) /\ pc[j] = "done" /\ result[j]
    /\ update[j].from.Username # update[i].from.Username
    /\ mutex = 0

HoldsLockFor(v) ==
  \E i \in Updates : mutex = i /\ IsMessage(i) /\ update[i].from.Username = v

(***************************************************************************)
(* C10: no user's session is written while a message-path transaction of   *)
(* that user holds the session lock.                                       *)
(* Fails: processCallbackQuery assigns pool.Sessions[userId] (line 273)    *)
(* without taking the lock.                                                *)
(***************************************************************************)
C10_WritesUnderLockOnly ==
  [][\A v \in DOMAIN sessions :
       HoldsLockFor(v) => sessions'[v] = sessions[v]]_vars

(***************************************************************************)
(* Scheduling: a handler goroutine that can take a step eventually takes   *)
(* it, and the Bot API calls return.  Nothing makes the sox process        *)
(* return (soxConvert sets no timeout), nothing makes an update arrive.    *)
(***************************************************************************)
HandlerFairness ==
  \A i \in Updates :
    /\ WF_vars(CheckUser(i))
    /\ WF_vars(Lock(i))
    /\ WF_vars(\E ok \in BOOLEAN : ReplyText(i, ok))
    /\ WF_vars(\E f \in FetchOutcomes : \E ok \in BOOLEAN : Synthesize(i, f, ok))
    /\ WF_vars(Unlock(i))
    /\ WF_vars(ProcessCallback(i))
    /\ WF_vars(\E ackOk, editOk \in BOOLEAN : AnswerCallback(i, ackOk, editOk))

HangSpec == Init /\ [][Next]_vars /\ HandlerFairness

(***************************************************************************)
(* C9: a sox process that never returns hangs only the voice transaction   *)
(* that started it: every other delivered update is eventually processed   *)
(* to completion (unless the process dies).                                *)
(* Fails: the hung transaction keeps pool.Lock(), so every later message   *)
(* of an allowed user waits at line 164 forever.                           *)
(***************************************************************************)
C9_HangIsolated ==
  \A i \in Updates :
    (pc[i] # "idle") ~> (pc[i] = "done" \/ pc[i] = "convert" \/ crashed)

(* handler i is between pool.Lock() (line 164) and pool.Unlock() (line 250) *)
InTransaction(i) == pc[i] \in {"locked", "convert", "unlock"}

(* C11, first part: at most one message-path transaction is between the   *)
(* read of its session and its unlock, and it is the holder of the mutex   *)
C11_OneTransaction ==
  \A i, j \in Updates :
    InTransaction(i) => mutex = i /\ (InTransaction(j) => i = j)

(* C11, second part: the fetch, the start and the end of the conversion    *)
(* and every outbound call of a message-path handler are steps taken while *)
(* it holds the mutex                                                      *)
C11_WorkUnderLock ==
  \A i \in Updates :
    IsMessage(i) /\ ( fetched'[i] # fetched[i] \/ args'[i] # args[i]
                      \/ ran'[i] # ran[i] \/ calls'[i] # calls[i] )
      => mutex = i /\ mutex' = i

(***************************************************************************)
(* C11: message-path transactions of authorized users are mutually         *)
(* exclusive for their whole duration: at most one at a time is between    *)
(* reading the session and sending its reply, and this critical section    *)
(* includes the voice-file fetch, the conversion and the outbound send.    *)
(***************************************************************************)
C11_MutualExclusion ==
  [](C11_OneTransaction) /\ [][C11_WorkUnderLock]_vars

(* a conversion is running while another allowed user's message waits for *)
(* the lock                                                                *)
C11_Witness ==
  \E i, j \in Updates :
    /\ i # j /\ pc[i] = "convert" /\ mutex = i
    /\ IsMessage(j) /\ Authorized(j) /\ pc[j] = "lock"
    /\ update[j].from.Username # update[i].from.Username

(* the step of handler i that runs lines 257-287 for a change-preset       *)
(* payload naming a configured preset, sent by a user on the allow-list    *)
AppliesPresetStep(i) ==
  /\ IsCallback(i) /\ pc[i] = "start" /\ pc'[i] # "start"
  /\ HasPrefix(update[i].data, "/presetchange")
  /\ presetOf(update[i].data) \in DOMAIN soxPresets
  /\ Authorized(i)

(***************************************************************************)
(* C12: the session store is mutated only by the change-preset callback:   *)
(* every step that changes any user's session is the step of a callback    *)
(* that carries the change-preset command for a configured preset from a   *)
(* user on the allow-list; no step of a message-path handler (start,       *)
(* preset, help, unknown text, voice success, voice failure) and no step   *)
(* of another callback changes the store.                                  *)
(***************************************************************************)
C12_OnlyChangePresetMutates ==
  [][ /\ sessions' # sessions => \E i \in Updates : AppliesPresetStep(i)
      /\ \A i \in Updates :
           pc'[i] # pc[i] /\ ~AppliesPresetStep(i) => sessions' = sessions
    ]_vars

(* a callback has set the preset of a user and a voice message of that     *)
(* user was handled to its end, the preset still being in the store        *)
C12_Witness ==
  \E i, j \in Updates :
    /\ IsVoice(i) /\ Authorized(i) /\ pc[i] = "done" /\ calls[i] # <<>>
    /\ sessions[update[i].from.Username].SelectedPreset # ""
    /\ IsCallback(j) /\ pc[j] = "done"

(* update i is a change-preset callback whose payload names P (line 265) *)
NamesPreset(i, P) ==
  /\ IsCallback(i) /\ HasPrefix(update[i].data, "/presetchange")
  /\ presetOf(update[i].data) = P

C13_Acknowledged ==
  \A i \in Updates : \A P \in DOMAIN soxPresets :
    NamesPreset(i, P) /\ pc[i] = "done" =>
      IF Authorized(i)
      THEN /\ calls[i] # <<>>
           /\ calls[i][1].api = "AnswerCallbackQuery"
           /\ calls[i][1].text = "Applied preset: " \o P
      ELSE calls[i] = <<>>

C13_SetsSession ==
  \A i \in Updates : \A P \in DOMAIN soxPresets :
    NamesPreset(i, P) /\ pc[i] = "start" /\ pc'[i] # "start" =>
      IF Authorized(i)
      THEN LET u == update[i].from.Username IN
           /\ sessions'[u] = [UserId |-> u, SelectedPreset |-> P]
           /\ \A v \in DOMAIN sessions \ {u} :
                v \in DOMAIN sessions' /\ sessions'[v] = sessions[v]
      ELSE sessions' = sessions

(***************************************************************************)
(* C13: a change-preset callback whose payload names a configured preset P *)
(* and whose sender u is on the allow-list sets u's session preset to      *)
(* exactly P, leaves the session of every other user unchanged and is      *)
(* acknowledged with "Applied preset: P"; sent by anyone else it changes   *)
(* no session and is not acknowledged.  The name of the payload is the     *)
(* one line 265 extracts from it.                                          *)
(***************************************************************************)
C13_AppliesExactlyP ==
  [](C13_Acknowledged) /\ [][C13_SetsSession]_vars

(* the same callback was handled for a user on the allow-list, whose       *)
(* session now holds the preset, and for a sender outside of it            *)
C13_Witness ==
  \E i, j \in Updates : \E P \in DOMAIN soxPresets :
    /\ NamesPreset(i, P) /\ Authorized(i) /\ pc[i] = "done"
    /\ sessions[update[i].from.Username].SelectedPreset = P
    /\ \E v \in DOMAIN sessions : sessions[v].SelectedPreset # P
    /\ NamesPreset(j, P) /\ NotAllowed(j) /\ pc[j] = "done"

(***************************************************************************)
(* C14, as stated: every voice message of a user on the allow-list starts  *)
(* the sox process exactly once, and an update that is not a voice message *)
(* never starts it.                                                        *)
(* Fails: when the voice file cannot be fetched (lines 316, 321) the       *)
(* handler replies with the failure and sox is not started at all.         *)
(***************************************************************************)
C14_OneInvocationPerVoice ==
  \A i \in Updates :
    /\ IsVoice(i) /\ Authorized(i) /\ pc[i] = "done" => invocations[i] = 1
    /\ ~IsVoice(i) => invocations[i] = 0

(***************************************************************************)
(* C14, amended: a voice message of a user on the allow-list starts the    *)
(* sox process exactly once when its voice file was fetched and not at all *)
(* when the fetch failed; the process is started before the handler waits  *)
(* for it and never twice; no other update starts it.                      *)
(***************************************************************************)
C14_OneInvocationPerFetchedVoice ==
  \A i \in Updates :
    /\ IsVoice(i) /\ Authorized(i) /\ pc[i] = "done" =>
         invocations[i] = IF fetched[i].ok THEN 1 ELSE 0
    /\ pc[i] = "convert" => invocations[i] = 1
    /\ invocations[i] <= 1
    /\ ~(IsVoice(i) /\ Authorized(i)) => invocations[i] = 0

(* one voice message was converted and answered, another one's fetch       *)
(* failed and was answered without sox                                     *)
C14_Witness ==
  \E i, j \in Updates :
    /\ IsVoice(i) /\ Authorized(i) /\ pc[i] = "done" /\ invocations[i] = 1
    /\ IsVoice(j) /\ Authorized(j) /\ pc[j] = "done" /\ FetchFailed(j)
    /\ invocations[j] = 0

C15_NoCallNoCrash ==
  \A i \in Updates :
    pc[i] # "idle" /\ ~update[i].from.hasUsername =>
      calls[i] = <<>> /\ pc[i] # "panic"

C15_NoSessionChange ==
  \A i \in Updates :
    pc'[i] # pc[i] /\ pc[i] # "idle" /\ ~update[i].from.hasUsername =>
      sessions' = sessions

(***************************************************************************)
(* C15: an update whose sender has no username is dropped silently on the  *)
(* message path and on the callback path, whatever it carries: no call is  *)
(* made for it, handling it changes no session, and it does not bring the  *)
(* process down.                                                           *)
(* Fails: processCallbackQuery dereferences query.From.Username at line    *)
(* 268 without a nil check when the payload names a configured preset, and *)
(* it acknowledges "/cancel" and an unknown preset name without looking at *)
(* the sender at all.                                                      *)
(***************************************************************************)
C15_NoIdentityDropped ==
  [](C15_NoCallNoCrash) /\ [][C15_NoSessionChange]_vars

(* the calls that send a reply: text, voice, acknowledgement, edit *)
IsReply(c) ==
  c.api \in {"SendMessage", "SendVoice", "AnswerCallbackQuery", "EditMessageText"}

(* a reply of update i was not delivered, or its voice file not fetched *)
TransportFailed(i) ==
  \/ \E k \in 1..Len(calls[i]) : IsReply(calls[i][k]) /\ ~calls[i][k].ok
  \/ FetchFailed(i)

C16_FailureReported ==
  \A i \in Updates :
    /\ TransportFailed(i) => ~result[i]
    /\ pc[i] = "done" => mutex # i
    /\ IsMessage(i) /\ result[i] =>
         /\ calls[i] # <<>>
         /\ calls[i][Len(calls[i])].ok
         /\ calls[i][Len(calls[i])].api =
              IF IsVoice(i) THEN "SendVoice" ELSE "SendMessage"

C16_FailureDoesNotCrash ==
  \A i \in Updates :
    ~TransportFailed(i) /\ TransportFailed(i)' => crashed' = crashed

TextOf(i) == IF update[i].hasText THEN update[i].text ELSE ""

(* the class of message i: voice first, then the three prefixes in order *)
ClassOf(i) ==
  IF update[i].hasVoice THEN "voice"
  ELSE IF HasPrefix(TextOf(i), "/start") THEN "start"
  ELSE IF HasPrefix(TextOf(i), "/preset") THEN "list-presets"
  ELSE IF HasPrefix(TextOf(i), "/help") THEN "help"
  ELSE "unrecognized"

(* the replies (text, voice) sent for update i *)
RepliesOf(i) == {k \in 1..Len(calls[i]) : IsReply(calls[i][k])}

(***************************************************************************)
(* C17: each message of a user on the allow-list gets exactly one reply,   *)
(* of the kind of its class: a voice attachment is answered as voice       *)
(* (the converted voice, or the failure of the synthesis) whatever text    *)
(* comes with it; otherwise the text is matched by case-sensitive prefix   *)
(* against the start, the preset and the help command in this order, and   *)
(* a text that matches none, an absent text included, is echoed as         *)
(* "Unknown command: <text>".                                              *)
(***************************************************************************)
C17_OneReplyPerClass ==
  \A i \in Updates :
    IsMessage(i) /\ Authorized(i) /\ pc[i] = "done" =>
      /\ Cardinality(RepliesOf(i)) = 1
      /\ \A k \in RepliesOf(i) :
           LET c == calls[i][k] IN
           CASE ClassOf(i) = "voice" ->
                  \/ c.api = "SendVoice"
                  \/ c.api = "SendMessage"
                       /\ HasPrefix(c.text, "Failed to synthesize voice: ")
             [] ClassOf(i) = "start" ->
                  c.api = "SendMessage" /\ c.text = "Record your voice to start."
             [] ClassOf(i) = "list-presets" ->
                  c.api = "SendMessage"
                    /\ c.text \in {"Select a preset.", "No preset available."}
             [] ClassOf(i) = "help" ->
                  c.api = "SendMessage" /\ c.text = getHelp
             [] ClassOf(i) = "unrecognized" ->
                  c.api = "SendMessage"
                    /\ c.text = "Unknown command: " \o TextOf(i)

(* a voice message that carries the start command was answered with a      *)
(* voice, and a text in another case than the help command was echoed      *)
C17_Witness ==
  \E i, j \in Updates :
    /\ IsVoice(i) /\ Authorized(i) /\ update[i].hasText /\ pc[i] = "done"
    /\ \E k \in RepliesOf(i) : calls[i][k].api = "SendVoice"
    /\ IsMessage(j) /\ Authorized(j) /\ pc[j] = "done" /\ update[j].text = "/Help"
    /\ \E k \in RepliesOf(j) : calls[j][k].text = "Unknown command: /Help"

(***************************************************************************)
(* C18: a callback payload is classified by prefix, change-preset before   *)
(* cancel: a cancel payload is acknowledged with "Canceled."; a payload    *)
(* with neither prefix gets no acknowledgement and no edit.  The original  *)
(* message is edited only after the acknowledgement succeeded, once, with  *)
(* the text of the acknowledgement, and the handler returns true only when *)
(* the acknowledgement and the edit both succeeded.                        *)
(***************************************************************************)
C18_CallbackAcknowledgement ==
  \A i \in Updates :
    IsCallback(i) /\ pc[i] = "done" =>
      LET d == update[i].data
          n == Len(calls[i])
      IN
      /\ ~HasPrefix(d, "/presetchange") /\ HasPrefix(d, "/cancel") =>
           n >= 1 /\ calls[i][1].api = "AnswerCallbackQuery"
                  /\ calls[i][1].text = "Canceled."
      /\ ~HasPrefix(d, "/presetchange") /\ ~HasPrefix(d, "/cancel") =>
           n = 0 /\ ~result[i]
      /\ \A k \in 1..n :
           /\ calls[i][k].api \in {"AnswerCallbackQuery", "EditMessageText"}
           /\ calls[i][k].api = "AnswerCallbackQuery" <=> k = 1
           /\ calls[i][k].api = "EditMessageText" =>
                calls[i][1].ok /\ calls[i][k].text = calls[i][1].text
      /\ n >= 1 /\ calls[i][1].ok => n = 2
      /\ result[i] <=> (n = 2 /\ calls[i][1].ok /\ calls[i][2].ok)

(* a cancel was acknowledged and the message edited; another callback's    *)
(* acknowledgement failed and its message was left alone                   *)
C18_Witness ==
  \E i, j \in Updates :
    /\ IsCallback(i) /\ update[i].data = "/cancel" /\ pc[i] = "done"
    /\ Len(calls[i]) = 2 /\ result[i]
    /\ IsCallback(j) /\ pc[j] = "done" /\ Len(calls[j]) = 1 /\ ~calls[j][1].ok

(***************************************************************************)
(* Scheduling under which every external call returns: the fairness of     *)
(* HandlerFairness and, in addition, a sox process that always exits.      *)
(***************************************************************************)
ReturnFairness ==
  /\ HandlerFairness
  /\ \A i \in Updates :
       WF_vars(\E o \in SoxOutcomes : \E ok \in BOOLEAN : ConvertReturn(i, o, ok))

ReturnSpec == Init /\ [][Next]_vars /\ ReturnFairness

(***************************************************************************)
(* C19: under fair scheduling, every external call returning, the handler  *)
(* of every delivered update eventually completes: a handler waiting for   *)
(* the session lock eventually acquires it, and a handler that acquired    *)
(* the lock eventually releases it.                                        *)
(* Fails: the process can die before a started handler completes, by the   *)
(* nil dereference of line 268 (see C15) or by the unsynchronised map      *)
(* write of line 273 (see C10); the handlers then never complete, and one  *)
(* waiting at pool.Lock() never acquires the lock.                         *)
(***************************************************************************)
C19_EveryTransactionCompletes ==
  /\ \A i \in Updates : (pc[i] # "idle") ~> (pc[i] = "done")
  /\ \A i \in Updates : (pc[i] = "lock") ~> (mutex = i \/ pc[i] = "done")
  /\ \A i \in Updates : (mutex = i) ~> (mutex # i)

C20_OneNameUsed ==
  \A i \in Updates :
    IsVoice(i) /\ Authorized(i) =>
      LET n == session[i].SelectedPreset
          list == IF n \in DOMAIN soxPresets THEN soxPresets[n] ELSE <<>>
      IN
      /\ args[i] # <<>> =>
           args[i] = <<"-t", "opus", "-", "-t", "ogg", "-">>
                       \o (IF n \in DOMAIN soxPresets THEN list
                           ELSE <<"speed", "1.0">>)
      /\ \A c \in VoiceReplies(i) :
           c.caption = IF n = "" THEN "Preset not set"
                       ELSE n \o " (" \o Join(list, " ") \o ")"

C20_ReadOnceUnderLock ==
  \A i \in Updates :
    IsVoice(i) /\ Authorized(i) =>
      /\ session'[i] # session[i] =>
           /\ pc[i] = "lock" /\ mutex' = i
           /\ session'[i] = sessions[update[i].from.Username]
      /\ pc[i] = "lock" /\ pc'[i] # "lock" =>
           session'[i] = sessions[update[i].from.Username]

(***************************************************************************)
(* C20: a voice transaction reads the preset name from the session once,   *)
(* in the step that acquires the lock: the argument list given to sox and  *)
(* the caption of the voice reply are both those of that one name, even    *)
(* when a change-preset callback of the same user is applied while the     *)
(* transaction is in progress.                                             *)
(***************************************************************************)
C20_SamePresetName ==
  [](C20_OneNameUsed) /\ [][C20_ReadOnceUnderLock]_vars

(* the voice reply was sent and the transaction is not over; meanwhile a   *)
(* callback has changed the preset of the same user in the store           *)
C20_Witness ==
  \E i \in Updates :
    /\ IsVoice(i) /\ Authorized(i) /\ pc[i] = "unlock" /\ VoiceReplies(i) # {}
    /\ sessions[update[i].from.Username].SelectedPreset
         # session[i].SelectedPreset

(***************************************************************************)
(* C21: in every reachable state the selected preset of each session is    *)
(* the empty string or the name of a configured preset, and the user id    *)
(* stored in each session is the key the session is stored under.          *)
(***************************************************************************)
C21_SessionsWellFormed ==
  \A v \in DOMAIN sessions :
    /\ sessions[v].SelectedPreset = ""
         \/ sessions[v].SelectedPreset \in DOMAIN soxPresets
    /\ sessions[v].UserId = v

(* one user has selected a preset, another has not, and a callback naming  *)
(* a preset that is not configured was handled to its end                  *)
C21_Witness ==
  \E v, w \in DOMAIN sessions : \E j \in Updates :
    /\ sessions[v].SelectedPreset # ""
    /\ sessions[w].SelectedPreset = ""
    /\ NamesUnknownPreset(j) /\ Authorized(j) /\ pc[j] = "done"

C22_StaysSelected ==
  \A v \in DOMAIN sessions :
    sessions[v].SelectedPreset # "" =>
      /\ v \in DOMAIN sessions'
      /\ sessions'[v].SelectedPreset # ""
      /\ sessions'[v].SelectedPreset \in DOMAIN soxPresets

C22_CaptionAfterSelection ==
  \A i \in Updates :
    /\ IsVoice(i) /\ Authorized(i)
    /\ sessions[update[i].from.Username].SelectedPreset # ""
    /\ VoiceReplies(i) = {} /\ VoiceReplies(i)' # {}
    => \A c \in VoiceReplies(i)' : c.caption # "Preset not set"

(***************************************************************************)
(* C22: once the session of a user holds a non-empty selected preset it    *)
(* never holds the empty one again, in every later state it holds the name *)
(* of a configured preset, and no voice reply sent to that user from then  *)
(* on has the caption "Preset not set".                                    *)
(* Fails: with a preset configured under the empty name its button sets    *)
(* the selected preset back to the empty string (lines 265-276); and a     *)
(* voice transaction that copied the session before the selection (line    *)
(* 165) sends "Preset not set" after it, the write of line 273 not waiting *)
(* for the lock.                                                           *)
(***************************************************************************)
C22_SelectionIsPermanent ==
  [][C22_StaysSelected /\ C22_CaptionAfterSelection]_vars

============================================================================
